---- MODULE Spec2Model ----
(***************************************************************************)
(* Countdown-as-a-service (src/main.go): the in-memory job registry        *)
(* (history, historyOrder, nextEntryID) guarded by the mutex mu, the       *)
(* request handlers that create and read jobs, and the runTimer goroutines *)
(* that complete them.  Time is the clock `now`, counted in ticks.         *)
(***************************************************************************)
EXTENDS Integers, Sequences, FiniteSets, TLC

VARIABLES
    now,           \* the clock read by time.Now(), in ticks
    mu,            \* sync.Mutex: TRUE while locked
    history,       \* map[int]DelayEntry
    historyOrder,  \* []int, IDs in insertion order
    nextEntryID,   \* the next ID to issue
    timers,        \* the live runTimer goroutines
    pc,            \* each request handler's position
    loc,           \* each request handler's local variables
    issued         \* the values assigned to jobID, in lock-acquisition order

vars == <<now, mu, history, historyOrder, nextEntryID, timers, pc, loc, issued>>

----------------------------------------------------------------------------
(* Program constant and the bounds of the model *)

maxHistory == 10

\* jobs already created, one after the other at clock 0, in a warm initial state
WarmJobs == 10
\* successful creates explored from an initial state
MaxCreates == 2
\* the clock stops at MaxTime ticks
MaxTime == 3
\* ticks of the clock in one second
TicksPerSec == 2
\* the longest delay of the job whose status views are derived
MaxDelay == 3

\* the goroutines serving HTTP requests concurrently
Threads == {"h1", "h2"}

\* form value "name"
Names == {"job"}

\* strconv.Atoi(r.FormValue("delay")): the value and whether it failed
DelayInputs ==
    {[err |-> TRUE, val |-> 0]} \cup {[err |-> FALSE, val |-> v] : v \in {0, 1}}

\* the {id} of /api/status/{id} after strconv.Atoi
IdInputs == {-1, 0, 1, maxHistory + 1}

\* the IDs whose creation is explored: from the empty registry and from the warm one
ExploredIDs == (1 .. MaxCreates) \cup ((WarmJobs + 1) .. (WarmJobs + MaxCreates))

----------------------------------------------------------------------------
(* Data *)

\* *time.Time: <<>> is nil, <<t>> points to t
NilTime == <<>>

\* the zero value of DelayEntry (what a failed map lookup yields)
ZeroEntry ==
    [ID |-> 0, Name |-> "", DateTimeAdded |-> 0, TotalDelaySecs |-> 0,
     IsCompleted |-> FALSE, CompletedTime |-> NilTime]

\* time.Duration(secs) * time.Second, in ticks
Seconds(secs) == secs * TicksPerSec

\* a handler's locals when it serves no request
NoLocals ==
    [delay |-> 0, err |-> FALSE, name |-> "", jobID |-> 0, ok |-> FALSE, entry |-> ZeroEntry]

\* delete(history, id)
MapDelete(h, id) == [k \in DOMAIN h \ {id} |-> h[k]]

\* history[id] = e
MapPut(h, id, e) == [k \in DOMAIN h \cup {id} |-> IF k = id THEN e ELSE h[k]]

\* entry, ok := history[id]
MapGet(h, id) ==
    IF id \in DOMAIN h THEN [ok |-> TRUE, entry |-> h[id]]
    ELSE [ok |-> FALSE, entry |-> ZeroEntry]

----------------------------------------------------------------------------
(* Pure functions *)

\* keepHistoryBounded stopping one entry too late
RECURSIVE keepHistoryBounded_OffByOne(_)
keepHistoryBounded_OffByOne(r) ==
    IF Len(r.order) <= maxHistory + 1 THEN r
    ELSE keepHistoryBounded_OffByOne([order |-> Tail(r.order),
                                      hist  |-> MapDelete(r.hist, Head(r.order))])

\* keepHistoryBounded slicing historyOrder without delete(history, oldestID)
RECURSIVE keepHistoryBounded_NoDelete(_)
keepHistoryBounded_NoDelete(r) ==
    IF Len(r.order) <= maxHistory THEN r
    ELSE keepHistoryBounded_NoDelete([order |-> Tail(r.order), hist |-> r.hist])

\* keepHistoryBounded on the pair (history, historyOrder)
RECURSIVE keepHistoryBounded(_)
keepHistoryBounded(r) ==
    IF Len(r.order) <= maxHistory THEN r
    ELSE keepHistoryBounded([order |-> Tail(r.order),
                             hist  |-> MapDelete(r.hist, Head(r.order))])

\* the duration taken in clock units instead of whole seconds
IntSeconds_Ticks(d) == d

\* int(d.Seconds()) for a duration d >= 0 in ticks
IntSeconds(d) == d \div TicksPerSec

\* getStatusDetails without elapsedSecs = entry.TotalDelaySecs in the completed branch
getStatusDetails_NoCap(entry, t) ==
    LET expectedCompletionTime == entry.DateTimeAdded + Seconds(entry.TotalDelaySecs)
        elapsedDuration == t - entry.DateTimeAdded
    IN  IF entry.IsCompleted \/ t > expectedCompletionTime
        THEN [elapsedSecs |-> IntSeconds(elapsedDuration), currentStatus |-> "completed"]
        ELSE [elapsedSecs |-> IntSeconds(elapsedDuration), currentStatus |-> "in-progress"]

\* getStatusDetails(entry) with the clock reading t
getStatusDetails(entry, t) ==
    LET expectedCompletionTime == entry.DateTimeAdded + Seconds(entry.TotalDelaySecs)
        elapsedDuration == t - entry.DateTimeAdded
    IN  IF entry.IsCompleted \/ t > expectedCompletionTime
        THEN [elapsedSecs |-> entry.TotalDelaySecs, currentStatus |-> "completed"]
        ELSE [elapsedSecs |-> IntSeconds(elapsedDuration), currentStatus |-> "in-progress"]

\* the completion step setting the flag but not CompletedTime
MarkCompleted_NoTime(h, jobID, t) ==
    IF jobID \in DOMAIN h
    THEN [h EXCEPT ![jobID] = [@ EXCEPT !.IsCompleted = TRUE]]
    ELSE h

\* the completion step storing the entry without looking at ok
MarkCompleted_Resurrect(h, jobID, t) ==
    MapPut(h, jobID, [MapGet(h, jobID).entry EXCEPT !.IsCompleted = TRUE,
                                                    !.CompletedTime = <<t>>])

\* the completion step storing a fresh entry that carries only the ID and the outcome
MarkCompleted_FreshEntry(h, jobID, t) ==
    IF jobID \in DOMAIN h
    THEN [h EXCEPT ![jobID] = [ZeroEntry EXCEPT !.ID = jobID, !.IsCompleted = TRUE,
                                               !.CompletedTime = <<t>>]]
    ELSE h

\* the completion step of runTimer on the map
MarkCompleted(h, jobID, t) ==
    IF jobID \in DOMAIN h
    THEN [h EXCEPT ![jobID] = [@ EXCEPT !.IsCompleted = TRUE, !.CompletedTime = <<t>>]]
    ELSE h

\* the DelayEntry literal of startHandler
NewEntry(id, name, delay, t) ==
    [ID |-> id, Name |-> name, DateTimeAdded |-> t, TotalDelaySecs |-> delay,
     IsCompleted |-> FALSE, CompletedTime |-> NilTime]

\* the critical section taking the next ID from the number of retained jobs
Create_IdFromLength(reg, name, delay, t) ==
    LET r == keepHistoryBounded(
                 [order |-> Append(reg.order, reg.next),
                  hist  |-> MapPut(reg.hist, reg.next, NewEntry(reg.next, name, delay, t))])
    IN  [hist |-> r.hist, order |-> r.order, next |-> Len(r.order) + 1]

\* the critical section of startHandler on the registry reg = (hist, order, next):
\* the entry is stored and appended, the history bounded, the counter advanced
Create(reg, name, delay, t) ==
    LET r == keepHistoryBounded(
                 [order |-> Append(reg.order, reg.next),
                  hist  |-> MapPut(reg.hist, reg.next, NewEntry(reg.next, name, delay, t))])
    IN  [hist |-> r.hist, order |-> r.order, next |-> reg.next + 1]

\* the ApiStatusResponse built from an entry at clock reading t
ApiStatus(entry, t) ==
    LET d == getStatusDetails(entry, t)
        rem == entry.TotalDelaySecs - d.elapsedSecs
    IN  [ID |-> entry.ID, Name |-> entry.Name, DateTimeAdded |-> entry.DateTimeAdded,
         TotalDelaySecs |-> entry.TotalDelaySecs, Status |-> d.currentStatus,
         ElapsedTimeSecs |-> d.elapsedSecs,
         RemainingTimeSecs |-> IF rem < 0 THEN 0 ELSE rem,
         CompletedTime |-> entry.CompletedTime]

\* the responseList of apiStatusIndexHandler (a Go map iterates in no fixed order)
responseList == {ApiStatus(history[id], now) : id \in DOMAIN history}

----------------------------------------------------------------------------
(* Initial state *)

\* the registry as declared: empty, the first ID is 1
EmptyRegistry == [hist |-> <<>>, order |-> <<>>, next |-> 1]

\* the registry after k POSTs of delay 1 served one after the other at clock 0
RECURSIVE Created(_)
Created(k) == IF k = 0 THEN EmptyRegistry ELSE Create(Created(k - 1), "job", 1, 0)

\* ... and after the timers of the jobs in done have then fired at clock t
RECURSIVE Completed(_, _, _)
Completed(h, done, t) ==
    IF done = {} THEN h
    ELSE LET j == CHOOSE x \in done : TRUE
         IN  Completed(MarkCompleted(h, j, t), done \ {j}, t)

\* the state after construction: the package-level variables as declared
InitEmpty ==
    /\ now = 0
    /\ mu = FALSE
    /\ history = EmptyRegistry.hist
    /\ historyOrder = EmptyRegistry.order
    /\ nextEntryID = EmptyRegistry.next
    /\ timers = {}
    /\ pc = [t \in Threads |-> "idle"]
    /\ loc = [t \in Threads |-> NoLocals]
    /\ issued = <<>>

\* the state the program is in after WarmJobs POSTs of delay 1 were served one after
\* the other at clock 0, one second has passed and every timer has fired on time
\* except that of job 1, which still sleeps
InitWarm ==
    /\ now = Seconds(1)
    /\ mu = FALSE
    /\ history = Completed(Created(WarmJobs).hist, 2 .. WarmJobs, Seconds(1))
    /\ historyOrder = Created(WarmJobs).order
    /\ nextEntryID = Created(WarmJobs).next
    /\ timers = {[jobID |-> 1, delay |-> 1, start |-> 0, pc |-> "sleep"]}
    /\ pc = [t \in Threads |-> "idle"]
    /\ loc = [t \in Threads |-> NoLocals]
    /\ issued = [j \in 1 .. WarmJobs |-> j]

\* The program starts with the empty registry.  To reach evictions within the
\* bounds, a run may also start from the warm state.
Init == InitEmpty \/ InitWarm

----------------------------------------------------------------------------
(* The clock *)

Tick ==
    /\ now < MaxTime
    /\ now' = now + 1
    /\ UNCHANGED <<mu, history, historyOrder, nextEntryID, timers, pc, loc, issued>>

----------------------------------------------------------------------------
(* startHandler, POST *)

\* err != nil || delay < 0
InvalidDelay_Negative(in) == in.err \/ in.val < 0

\* err != nil || delay < 1
InvalidDelay(in) == in.err \/ in.val < 1

\* delayStr, jobName and delay, err are read; an invalid delay goes to the 400
\* answer, a valid one on to mu.Lock()
StartPost(t, in, name) ==
    /\ pc[t] = "idle"
    /\ loc' = [loc EXCEPT ![t] = [NoLocals EXCEPT !.delay = in.val, !.err = in.err,
                                                 !.name = name]]
    /\ IF InvalidDelay(in)
       THEN /\ pc' = [pc EXCEPT ![t] = "post_400"]
            /\ UNCHANGED mu
       ELSE /\ nextEntryID \in ExploredIDs
            /\ ~mu
            /\ mu' = TRUE
            /\ pc' = [pc EXCEPT ![t] = "post_cs"]
    /\ UNCHANGED <<now, history, historyOrder, nextEntryID, timers, issued>>

\* http.Error(w, "Invalid delay value", http.StatusBadRequest) and return
PostReject(t) ==
    /\ pc[t] = "post_400"
    /\ pc' = [pc EXCEPT ![t] = "idle"]
    /\ loc' = [loc EXCEPT ![t] = NoLocals]
    /\ UNCHANGED <<now, mu, history, historyOrder, nextEntryID, timers, issued>>

\* the critical section: the new entry, keepHistoryBounded, the ID, mu.Unlock()
PostCreate(t) ==
    /\ pc[t] = "post_cs"
    /\ LET r == Create([hist |-> history, order |-> historyOrder, next |-> nextEntryID],
                       loc[t].name, loc[t].delay, now)
       IN  /\ history' = r.hist
           /\ historyOrder' = r.order
           /\ nextEntryID' = r.next
    /\ loc' = [loc EXCEPT ![t].jobID = nextEntryID]
    /\ issued' = Append(issued, nextEntryID)
    /\ mu' = FALSE
    /\ pc' = [pc EXCEPT ![t] = "post_log"]
    /\ UNCHANGED <<now, timers>>

\* startHandler arming the timer only once no other timer is pending
PostArm_AfterTimers(t) ==
    /\ pc[t] = "post_log"
    /\ timers = {}
    /\ timers' = timers \cup {[jobID |-> loc[t].jobID, delay |-> loc[t].delay,
                                start |-> now, pc |-> "sleep"]}
    /\ pc' = [pc EXCEPT ![t] = "idle"]
    /\ loc' = [loc EXCEPT ![t] = NoLocals]
    /\ UNCHANGED <<now, mu, history, historyOrder, nextEntryID, issued>>

\* log.Printf, go runTimer(jobID, delay), the redirect
PostArm(t) ==
    /\ pc[t] = "post_log"
    /\ timers' = timers \cup {[jobID |-> loc[t].jobID, delay |-> loc[t].delay,
                                start |-> now, pc |-> "sleep"]}
    /\ pc' = [pc EXCEPT ![t] = "idle"]
    /\ loc' = [loc EXCEPT ![t] = NoLocals]
    /\ UNCHANGED <<now, mu, history, historyOrder, nextEntryID, issued>>

----------------------------------------------------------------------------
(* runTimer *)

\* runTimer taking the lock without sleeping
TimerWake_NoSleep(g) ==
    /\ g.pc = "sleep"
    /\ ~mu
    /\ mu' = TRUE
    /\ timers' = (timers \ {g}) \cup {[g EXCEPT !.pc = "cs"]}
    /\ UNCHANGED <<now, history, historyOrder, nextEntryID, pc, loc, issued>>

\* a timer that is lost when the lock is not free at the instant the delay ends
TimerWake_ExactInstant(g) ==
    /\ g.pc = "sleep"
    /\ now = g.start + Seconds(g.delay)
    /\ ~mu
    /\ mu' = TRUE
    /\ timers' = (timers \ {g}) \cup {[g EXCEPT !.pc = "cs"]}
    /\ UNCHANGED <<now, history, historyOrder, nextEntryID, pc, loc, issued>>

\* time.Sleep returns (at or after the delay) and mu.Lock() succeeds
TimerWake(g) ==
    /\ g.pc = "sleep"
    /\ now >= g.start + Seconds(g.delay)
    /\ ~mu
    /\ mu' = TRUE
    /\ timers' = (timers \ {g}) \cup {[g EXCEPT !.pc = "cs"]}
    /\ UNCHANGED <<now, history, historyOrder, nextEntryID, pc, loc, issued>>

\* runTimer looping: after the completion step it sleeps again
TimerComplete_Loops(g) ==
    /\ g.pc = "cs"
    /\ history' = MarkCompleted(history, g.jobID, now)
    /\ mu' = FALSE
    /\ timers' = (timers \ {g}) \cup {[g EXCEPT !.pc = "sleep"]}
    /\ UNCHANGED <<now, historyOrder, nextEntryID, pc, loc, issued>>

\* the completion step, the log line, the deferred mu.Unlock(); the goroutine ends
TimerComplete(g) ==
    /\ g.pc = "cs"
    /\ history' = MarkCompleted(history, g.jobID, now)
    /\ mu' = FALSE
    /\ timers' = timers \ {g}
    /\ UNCHANGED <<now, historyOrder, nextEntryID, pc, loc, issued>>

----------------------------------------------------------------------------
(* apiStatusDetailHandler *)

\* the path parses to id; mu.Lock()
GetLock(t, id) ==
    /\ pc[t] = "idle"
    /\ ~mu
    /\ mu' = TRUE
    /\ pc' = [pc EXCEPT ![t] = "get_cs"]
    /\ loc' = [loc EXCEPT ![t] = [NoLocals EXCEPT !.jobID = id]]
    /\ UNCHANGED <<now, history, historyOrder, nextEntryID, timers, issued>>

\* parseAPIJobIDFromPath fails
GetBadPath(t) ==
    /\ pc[t] = "idle"
    /\ pc' = [pc EXCEPT ![t] = "get_400"]
    /\ UNCHANGED <<now, mu, history, historyOrder, nextEntryID, timers, loc, issued>>

\* http.Error(w, "Invalid request URL format...", http.StatusBadRequest) and return
GetReject(t) ==
    /\ pc[t] = "get_400"
    /\ pc' = [pc EXCEPT ![t] = "idle"]
    /\ UNCHANGED <<now, mu, history, historyOrder, nextEntryID, timers, loc, issued>>

\* entry, ok := history[jobID]; mu.Unlock()
GetRead(t) ==
    /\ pc[t] = "get_cs"
    /\ LET g == MapGet(history, loc[t].jobID)
       IN  loc' = [loc EXCEPT ![t].ok = g.ok, ![t].entry = g.entry]
    /\ mu' = FALSE
    /\ pc' = [pc EXCEPT ![t] = "get_resp"]
    /\ UNCHANGED <<now, history, historyOrder, nextEntryID, timers, issued>>

\* the answer of the detail handler: 404, or the status view derived now
GetResponse(t) ==
    IF loc[t].ok
    THEN [code |-> 200, body |-> ApiStatus(loc[t].entry, now)]
    ELSE [code |-> 404, body |-> ApiStatus(ZeroEntry, 0)]

\* the detail handler storing a status "completed" it derived from the clock
GetRespond_StoresDerived(t) ==
    /\ pc[t] = "get_resp"
    /\ history' = IF loc[t].ok /\ GetResponse(t).body.Status = "completed"
                  THEN MarkCompleted(history, loc[t].jobID, now)
                  ELSE history
    /\ pc' = [pc EXCEPT ![t] = "idle"]
    /\ loc' = [loc EXCEPT ![t] = NoLocals]
    /\ UNCHANGED <<now, mu, historyOrder, nextEntryID, timers, issued>>

\* the response is written and the handler returns
GetRespond(t) ==
    /\ pc[t] = "get_resp"
    /\ pc' = [pc EXCEPT ![t] = "idle"]
    /\ loc' = [loc EXCEPT ![t] = NoLocals]
    /\ UNCHANGED <<now, mu, history, historyOrder, nextEntryID, timers, issued>>

----------------------------------------------------------------------------
(* apiStatusIndexHandler *)

\* the list-all handler entering its critical section without waiting for the lock
ListLock_Unguarded(t) ==
    /\ pc[t] = "idle"
    /\ mu' = TRUE
    /\ pc' = [pc EXCEPT ![t] = "list_cs"]
    /\ UNCHANGED <<now, history, historyOrder, nextEntryID, timers, loc, issued>>

\* mu.Lock()
ListLock(t) ==
    /\ pc[t] = "idle"
    /\ ~mu
    /\ mu' = TRUE
    /\ pc' = [pc EXCEPT ![t] = "list_cs"]
    /\ UNCHANGED <<now, history, historyOrder, nextEntryID, timers, loc, issued>>

\* the list-all handler returning without mu.Unlock()
ListRespond_NoUnlock(t) ==
    /\ pc[t] = "list_cs"
    /\ pc' = [pc EXCEPT ![t] = "idle"]
    /\ UNCHANGED <<now, mu, history, historyOrder, nextEntryID, timers, loc, issued>>

\* responseList is built and encoded; the deferred mu.Unlock()
ListRespond(t) ==
    /\ pc[t] = "list_cs"
    /\ mu' = FALSE
    /\ pc' = [pc EXCEPT ![t] = "idle"]
    /\ UNCHANGED <<now, history, historyOrder, nextEntryID, timers, loc, issued>>

----------------------------------------------------------------------------
(* indexHandler *)

\* the rows of the history table: the last up-to-maxHistory IDs of historyOrder that
\* are still in history, each with its status derived at the clock reading t
indexRows(h, order, t) ==
    LET start == IF Len(order) > maxHistory THEN Len(order) - maxHistory ELSE 0
        ids == SelectSeq(SubSeq(order, start + 1, Len(order)), LAMBDA id : MapGet(h, id).ok)
    IN  [i \in DOMAIN ids |->
            [ID |-> ids[i], Status |-> getStatusDetails(h[ids[i]], t).currentStatus,
             ElapsedTimeSecs |-> getStatusDetails(h[ids[i]], t).elapsedSecs,
             CompletedTime |-> h[ids[i]].CompletedTime]]

\* mu.Lock()
IndexLock(t) ==
    /\ pc[t] = "idle"
    /\ ~mu
    /\ mu' = TRUE
    /\ pc' = [pc EXCEPT ![t] = "index_cs"]
    /\ UNCHANGED <<now, history, historyOrder, nextEntryID, timers, loc, issued>>

\* the table is built and written with writeResponseWithNav; the deferred mu.Unlock()
IndexRespond(t) ==
    /\ pc[t] = "index_cs"
    /\ mu' = FALSE
    /\ pc' = [pc EXCEPT ![t] = "idle"]
    /\ UNCHANGED <<now, history, historyOrder, nextEntryID, timers, loc, issued>>

----------------------------------------------------------------------------
(* The program *)

Next ==
    \/ Tick
    \/ \E t \in Threads, in \in DelayInputs, name \in Names : StartPost(t, in, name)
    \/ \E t \in Threads : PostCreate(t)
    \/ \E t \in Threads : PostArm(t)
    \/ \E t \in Threads : PostReject(t)
    \/ \E g \in timers : TimerWake(g)
    \/ \E g \in timers : TimerComplete(g)
    \/ \E t \in Threads, id \in IdInputs : GetLock(t, id)
    \/ \E t \in Threads : GetBadPath(t)
    \/ \E t \in Threads : GetReject(t)
    \/ \E t \in Threads : GetRead(t)
    \/ \E t \in Threads : GetRespond(t)
    \/ \E t \in Threads : ListLock(t)
    \/ \E t \in Threads : ListRespond(t)
    \/ \E t \in Threads : IndexLock(t)
    \/ \E t \in Threads : IndexRespond(t)

Spec == Init /\ [][Next]_vars

\* the program from construction only
SpecCold == InitEmpty /\ [][Next]_vars

----------------------------------------------------------------------------
(* The completion step invoked more than once *)

\* the completion step of runTimer (lock, mark, unlock) run once more for a retained
\* job that is already completed
MarkCompletedAgain(j) ==
    /\ ~mu
    /\ j \in DOMAIN history
    /\ history[j].IsCompleted
    /\ history' = MarkCompleted(history, j, now)
    /\ UNCHANGED <<now, mu, historyOrder, nextEntryID, timers, pc, loc, issued>>

NextMark ==
    \/ Tick
    \/ \E t \in Threads, in \in DelayInputs, name \in Names : StartPost(t, in, name)
    \/ \E t \in Threads : PostReject(t)
    \/ \E t \in Threads : PostCreate(t)
    \/ \E t \in Threads : PostArm(t)
    \/ \E g \in timers : TimerWake(g)
    \/ \E g \in timers : TimerComplete(g)
    \/ \E j \in DOMAIN history : MarkCompletedAgain(j)

SpecMark == InitEmpty /\ [][NextMark]_vars

----------------------------------------------------------------------------
(* The critical section of startHandler statement by statement *)

\* history[nextEntryID] = newEntry; historyOrder = append(historyOrder, nextEntryID)
PostInsert(t) ==
    /\ pc[t] = "post_cs"
    /\ history' = MapPut(history, nextEntryID,
                         NewEntry(nextEntryID, loc[t].name, loc[t].delay, now))
    /\ historyOrder' = Append(historyOrder, nextEntryID)
    /\ pc' = [pc EXCEPT ![t] = "post_bound"]
    /\ UNCHANGED <<now, mu, nextEntryID, timers, loc, issued>>

\* keepHistoryBounded(); jobID := nextEntryID; nextEntryID++; mu.Unlock()
PostBound(t) ==
    /\ pc[t] = "post_bound"
    /\ LET r == keepHistoryBounded([order |-> historyOrder, hist |-> history])
       IN  /\ history' = r.hist
           /\ historyOrder' = r.order
    /\ loc' = [loc EXCEPT ![t].jobID = nextEntryID]
    /\ issued' = Append(issued, nextEntryID)
    /\ nextEntryID' = nextEntryID + 1
    /\ mu' = FALSE
    /\ pc' = [pc EXCEPT ![t] = "post_log"]
    /\ UNCHANGED <<now, timers>>

NextFine ==
    \/ Tick
    \/ \E t \in Threads, in \in DelayInputs, name \in Names : StartPost(t, in, name)
    \/ \E t \in Threads : PostInsert(t)
    \/ \E t \in Threads : PostBound(t)
    \/ \E t \in Threads : PostArm(t)
    \/ \E t \in Threads : PostReject(t)
    \/ \E g \in timers : TimerWake(g)
    \/ \E g \in timers : TimerComplete(g)
    \/ \E t \in Threads, id \in IdInputs : GetLock(t, id)
    \/ \E t \in Threads : GetBadPath(t)
    \/ \E t \in Threads : GetReject(t)
    \/ \E t \in Threads : GetRead(t)
    \/ \E t \in Threads : GetRespond(t)
    \/ \E t \in Threads : ListLock(t)
    \/ \E t \in Threads : ListRespond(t)
    \/ \E t \in Threads : IndexLock(t)
    \/ \E t \in Threads : IndexRespond(t)

SpecFine == Init /\ [][NextFine]_vars

----------------------------------------------------------------------------
(* The program under fair scheduling *)

\* the clock never stops while a timer still sleeps towards its deadline
TickLive ==
    /\ \/ now < MaxTime
       \/ \E g \in timers : g.pc = "sleep" /\ now < g.start + Seconds(g.delay)
    /\ now' = now + 1
    /\ UNCHANGED <<mu, history, historyOrder, nextEntryID, timers, pc, loc, issued>>

\* a handler that has started runs on to its return
HandlerStep(t) ==
    \/ PostReject(t)
    \/ PostCreate(t)
    \/ PostArm(t)
    \/ GetReject(t)
    \/ GetRead(t)
    \/ GetRespond(t)
    \/ ListRespond(t)
    \/ IndexRespond(t)

\* the jobs created in the fair runs, from the empty registry
JobIDs == {1, 2}

\* the one goroutine serving requests in the fair runs; the timers run beside it
LiveThreads == {"h1"}

NextLive ==
    \/ TickLive
    \/ \E t \in LiveThreads, in \in DelayInputs, name \in Names :
           nextEntryID \in JobIDs /\ StartPost(t, in, name)
    \/ \E t \in LiveThreads : HandlerStep(t)
    \/ \E g \in timers : TimerWake(g)
    \/ \E g \in timers : TimerComplete(g)
    \/ \E t \in LiveThreads, id \in IdInputs : GetLock(t, id)
    \/ \E t \in LiveThreads : GetBadPath(t)
    \/ \E t \in LiveThreads : ListLock(t)
    \/ \E t \in LiveThreads : IndexLock(t)

\* The Go scheduler runs every runnable goroutine, so time passes, a started handler
\* goes on and a timer holding the lock completes (weak fairness).  A goroutine
\* blocked in mu.Lock() gets the lock although others keep taking it: sync.Mutex
\* hands the lock to a waiter that starves (strong fairness).  Requests arrive or
\* not as the clients please.
Fairness ==
    /\ WF_vars(TickLive)
    /\ \A t \in LiveThreads : WF_vars(HandlerStep(t))
    /\ \A j \in JobIDs : SF_vars(\E g \in timers : g.jobID = j /\ TimerWake(g))
    /\ \A j \in JobIDs : WF_vars(\E g \in timers : g.jobID = j /\ TimerComplete(g))

SpecLive == InitEmpty /\ [][NextLive]_vars /\ Fairness

----------------------------------------------------------------------------
(* Status derivation: one job of any delay, read while its time runs *)

\* the state after one POST of delay d was served and its timer started at clock c
InitDerive ==
    \E c \in 0 .. (TicksPerSec - 1), d \in 1 .. MaxDelay :
        /\ now = c
        /\ mu = FALSE
        /\ history = Create(EmptyRegistry, "job", d, c).hist
        /\ historyOrder = Create(EmptyRegistry, "job", d, c).order
        /\ nextEntryID = Create(EmptyRegistry, "job", d, c).next
        /\ timers = {[jobID |-> 1, delay |-> d, start |-> c, pc |-> "sleep"]}
        /\ pc = [t \in Threads |-> "idle"]
        /\ loc = [t \in Threads |-> NoLocals]
        /\ issued = <<1>>

\* the clock runs until one second past the deadline of the longest delay
TickDerive ==
    /\ now < Seconds(MaxDelay + 2)
    /\ now' = now + 1
    /\ UNCHANGED <<mu, history, historyOrder, nextEntryID, timers, pc, loc, issued>>

NextDerive ==
    \/ TickDerive
    \/ \E g \in timers : TimerWake(g)
    \/ \E g \in timers : TimerComplete(g)
    \/ \E t \in LiveThreads : GetLock(t, 1)
    \/ \E t \in LiveThreads : GetRead(t)
    \/ \E t \in LiveThreads : GetRespond(t)
    \/ \E t \in LiveThreads : ListLock(t)
    \/ \E t \in LiveThreads : ListRespond(t)

SpecDerive == InitDerive /\ [][NextDerive]_vars

----------------------------------------------------------------------------
(* Properties *)

\* the successful Creates so far
NumCreated == Len(issued)

\* the IDs of the min(n, maxHistory) most recently created of n jobs
LastCreated(n) == (IF n > maxHistory THEN n - maxHistory + 1 ELSE 1) .. n

\* the IDs in historyOrder
OrderIDs == {historyOrder[i] : i \in DOMAIN historyOrder}

\* C1: the IDs returned by Create are 1, 2, 3, ... in the order in which the calls
\* take the registry lock: pairwise distinct, strictly increasing, never reused (also
\* after evictions), and two calls in flight never hold the same ID.
C1_IdsSequential ==
    /\ \A i \in DOMAIN issued : issued[i] = i
    /\ \A t \in Threads : pc[t] = "post_log" => loc[t].jobID \in DOMAIN issued
    /\ \A t, u \in Threads :
          (t # u /\ pc[t] = "post_log" /\ pc[u] = "post_log") => loc[t].jobID # loc[u].jobID
    /\ \A j \in DOMAIN history : history[j].ID = j /\ j \in DOMAIN issued

\* two Creates are in flight at once, after more than maxHistory jobs were created
C1_Witness ==
    /\ NumCreated > maxHistory
    /\ \A t \in Threads : pc[t] = "post_log"
    /\ 1 \notin DOMAIN history

\* C2: after n successful Creates the registry holds exactly the min(n, maxHistory)
\* most recently created IDs, in creation order, never more than maxHistory, and the
\* list of jobs shows the same IDs; after 12 creates these are 3..12.
C2_RetainsLastCreated ==
    /\ OrderIDs = LastCreated(NumCreated)
    /\ DOMAIN history = LastCreated(NumCreated)
    /\ \A i \in DOMAIN historyOrder : historyOrder[i] = historyOrder[1] + i - 1
    /\ Cardinality(DOMAIN history) <= maxHistory
    /\ Cardinality(responseList) <= maxHistory
    /\ {r.ID : r \in responseList} = LastCreated(NumCreated)
    /\ NumCreated = 12 => {r.ID : r \in responseList} = 3 .. 12

\* the list of jobs is being produced after 12 creates, the timer of job 1 having fired
C2_Witness ==
    /\ NumCreated = 12
    /\ \E t \in Threads : pc[t] = "list_cs"
    /\ \A g \in timers : g.jobID # 1
    /\ {r.ID : r \in responseList} = 3 .. 12

\* C3: the completion step applied to a retained job that is already completed
\* changes nothing, so completedAt stays the timestamp of the first invocation.
C3_MarkCompletedIdempotent ==
    [][\A j \in DOMAIN history :
          (history[j].IsCompleted /\ MarkCompletedAgain(j)) => history' = history]_vars

\* C4: a status view says "in-progress" while now < createdAt + d, "completed" from
\* now = createdAt + d on, and "completed" whenever the stored flag is set.
C4_StatusFollowsClock ==
    \A t \in Threads :
       (pc[t] = "get_resp" /\ loc[t].ok) =>
          LET e == loc[t].entry
              deadline == e.DateTimeAdded + Seconds(e.TotalDelaySecs)
              status == GetResponse(t).body.Status
          IN  /\ now < deadline => status = "in-progress"
              /\ now >= deadline => status = "completed"
              /\ e.IsCompleted => status = "completed"

\* C5: for every job that stays retained, the stored flag never goes back from true
\* to false and completedAt, once set, never changes.
C5_CompletedOnce ==
    [][\A j \in DOMAIN history \cap DOMAIN history' :
          /\ history[j].IsCompleted => history'[j].IsCompleted
          /\ history[j].CompletedTime # NilTime =>
                history'[j].CompletedTime = history[j].CompletedTime]_vars

\* a job was completed earlier, the clock has moved on and other timers are pending
C5_Witness ==
    \E j \in DOMAIN history :
       /\ history[j].IsCompleted
       /\ history[j].CompletedTime # NilTime
       /\ history[j].CompletedTime[1] < now
       /\ \E g \in timers : g.pc = "sleep" /\ g.jobID # j

\* C6: a retained job has a completedAt exactly when its stored flag is true, and a
\* job whose Create has not yet returned has neither.
C6_CompletedAtIffCompleted ==
    /\ \A j \in DOMAIN history :
          (history[j].CompletedTime # NilTime) <=> history[j].IsCompleted
    /\ \A t \in Threads :
          (pc[t] = "post_log" /\ loc[t].jobID \in DOMAIN history) =>
             /\ ~history[loc[t].jobID].IsCompleted
             /\ history[loc[t].jobID].CompletedTime = NilTime

\* one retained job is completed while another was just created
C6_Witness ==
    /\ \E j \in DOMAIN history : history[j].IsCompleted /\ history[j].CompletedTime # NilTime
    /\ \E t \in Threads : pc[t] = "post_log" /\ loc[t].jobID \in DOMAIN history

\* C7: a retained job with the stored flag set has a completedAt at or after
\* createdAt + totalDelaySeconds.
C7_NeverCompletedEarly ==
    \A j \in DOMAIN history :
       history[j].IsCompleted =>
          /\ history[j].CompletedTime # NilTime
          /\ history[j].CompletedTime[1] >=
                history[j].DateTimeAdded + Seconds(history[j].TotalDelaySecs)

\* a retained job was completed by a timer that fired later than its deadline
C7_Witness ==
    \E j \in DOMAIN history :
       /\ history[j].IsCompleted
       /\ history[j].CompletedTime # NilTime
       /\ history[j].CompletedTime[1] >
             history[j].DateTimeAdded + Seconds(history[j].TotalDelaySecs)

\* C8: the completion step of a timer whose job was evicted changes neither the
\* lookup table nor the insertion-order sequence nor the counter, and an ID that was
\* issued and is no longer retained never comes back (Get keeps answering NotFound).
C8_EvictedFireAbsorbed ==
    [][/\ \A g \in timers :
             (g.pc = "cs" /\ g.jobID \notin DOMAIN history /\ g \notin timers') =>
                 /\ UNCHANGED <<history, historyOrder, nextEntryID>>
                 /\ ~MapGet(history', g.jobID).ok
       /\ \A j \in 1 .. (nextEntryID - 1) :
             j \notin DOMAIN history =>
                 (j \notin DOMAIN history' /\ j \notin {historyOrder'[i] : i \in DOMAIN historyOrder'})
      ]_vars

\* a timer has woken and holds the lock for a job that is already evicted
C8_Witness ==
    \E g \in timers :
       /\ g.pc = "cs"
       /\ g.jobID \in DOMAIN issued
       /\ g.jobID \notin DOMAIN history

\* C9: the lookup of Get finds nothing exactly when the ID was never issued (below 1,
\* or not yet issued) or was evicted, and otherwise yields the record of that ID.
C9_GetNotFound ==
    [][\A t \in Threads :
          (pc[t] = "get_cs" /\ pc'[t] = "get_resp") =>
             LET id == loc[t].jobID
                 neverIssued == id < 1 \/ id > NumCreated
                 evicted == id >= 1 /\ id <= NumCreated - maxHistory
             IN  /\ loc'[t].ok <=> ~(neverIssued \/ evicted)
                 /\ (GetResponse(t)'.code = 404) <=> (neverIssued \/ evicted)
                 /\ loc'[t].ok => (loc'[t].entry = history[id] /\ loc'[t].entry.ID = id)
      ]_vars

\* a Get of the evicted ID 1 is about to answer NotFound
C9_Witness ==
    \E t \in Threads :
       /\ pc[t] = "get_resp"
       /\ loc[t].jobID = 1
       /\ ~loc[t].ok
       /\ NumCreated > maxHistory

\* C10: a Create whose delay is invalid is answered 400 and its handler changes no
\* registry state, consumes no ID and arms no timer; a Create with delay >= 1 gets the
\* next ID, its entry is stored with the history bounded, and its timer is armed.
C10_CreateAllOrNothing ==
    /\ [](\A t \in Threads :
            /\ pc[t] \in {"post_cs", "post_log"} => (~loc[t].err /\ loc[t].delay >= 1)
            /\ pc[t] = "post_400" => (loc[t].err \/ loc[t].delay < 1))
    /\ [][\A t \in Threads :
            /\ (pc[t] # pc'[t] /\ (pc[t] = "post_400" \/ pc'[t] = "post_400")) =>
                  UNCHANGED <<history, historyOrder, nextEntryID, timers, issued, mu>>
            /\ (pc[t] = "post_cs" /\ pc'[t] # pc[t]) =>
                  /\ pc'[t] = "post_log"
                  /\ loc'[t].jobID = nextEntryID
                  /\ nextEntryID' = nextEntryID + 1
                  /\ MapGet(history', nextEntryID).ok
                  /\ history'[nextEntryID] =
                        NewEntry(nextEntryID, loc[t].name, loc[t].delay, now)
                  /\ Len(historyOrder') <= maxHistory
                  /\ historyOrder'[Len(historyOrder')] = nextEntryID
                  /\ DOMAIN history' = {historyOrder'[i] : i \in DOMAIN historyOrder'}
            /\ (pc[t] = "post_log" /\ pc'[t] # pc[t]) =>
                  \E g \in timers' \ timers : g.jobID = loc[t].jobID /\ g.delay = loc[t].delay
         ]_vars

\* a Create with delay 0 is being rejected while the registry holds jobs
C10_Witness ==
    \E t \in Threads :
       /\ pc[t] = "post_400"
       /\ ~loc[t].err
       /\ loc[t].delay = 0
       /\ history # <<>>

\* C11: under fair scheduling the timer of every created job fires: every job a
\* Create has issued is eventually completed in the registry or evicted from it.
C11_TimerEventuallyFires ==
    \A j \in JobIDs :
        (j \in {issued[i] : i \in DOMAIN issued})
            ~> (j \notin DOMAIN history \/ history[j].IsCompleted)

\* all the creates of the run are done and every timer has fired and ended
C11_Witness ==
    /\ {issued[i] : i \in DOMAIN issued} = JobIDs
    /\ timers = {}
    /\ \A j \in DOMAIN history : history[j].IsCompleted
    /\ \A t \in Threads : pc[t] = "idle"

\* the handlers between mu.Lock() and mu.Unlock()
InCS(t) == pc[t] \in {"post_cs", "post_bound", "get_cs", "list_cs", "index_cs"}

\* the timers not yet due
Pending == {g \in timers : g.pc = "sleep" /\ now < g.start + Seconds(g.delay)}

\* C12: a Create never waits on a timer.  Whatever timers are pending, a POST can
\* take the free lock, its critical section and its arming step can always run, and
\* when it is about to return its own job is not completed; timers that sleep hold
\* no lock.
C12_CreateNeverWaits ==
    /\ \A t \in Threads :
           /\ (pc[t] = "idle" /\ ~mu /\ nextEntryID \in ExploredIDs)
                  => ENABLED StartPost(t, [err |-> FALSE, val |-> 1], "job")
           /\ pc[t] = "post_cs" => ENABLED PostCreate(t)
           /\ pc[t] = "post_log" => ENABLED PostArm(t)
           /\ (pc[t] = "post_log" /\ loc[t].jobID \in DOMAIN history)
                  => ~history[loc[t].jobID].IsCompleted
    /\ ((\A g \in timers : g.pc = "sleep") /\ (\A t \in Threads : ~InCS(t))) => ~mu

\* a Create about to return while another job's timer is pending and its own job is
\* not completed
C12_Witness ==
    \E t \in Threads :
        /\ pc[t] = "post_log"
        /\ loc[t].jobID \in DOMAIN history
        /\ ~history[loc[t].jobID].IsCompleted
        /\ \E g \in Pending : g.jobID # loc[t].jobID

\* the status views the API handlers are producing: the detail view of a handler that
\* holds a snapshot, the list of a handler inside apiStatusIndexHandler
Views ==
    {GetResponse(t).body : t \in {u \in Threads : pc[u] = "get_resp" /\ loc[u].ok}}
        \cup (IF \E t \in Threads : pc[t] = "list_cs" THEN responseList ELSE {})

\* C13: for a job of delay d the derived elapsedSeconds is never negative, never
\* exceeds d and never decreases from one instant to the next (for the stored record
\* and for a snapshot a handler holds); a view with status "completed" has
\* elapsedSeconds = d and remainingSeconds = 0.
C13_ElapsedMonotoneCapped ==
    /\ [](\A v \in Views :
             /\ 0 <= v.ElapsedTimeSecs
             /\ v.ElapsedTimeSecs <= v.TotalDelaySecs
             /\ v.Status = "completed"
                    => v.ElapsedTimeSecs = v.TotalDelaySecs /\ v.RemainingTimeSecs = 0)
    /\ [][/\ \A j \in DOMAIN history \cap DOMAIN history' :
                ApiStatus(history[j], now).ElapsedTimeSecs
                    <= ApiStatus(history'[j], now').ElapsedTimeSecs
          /\ \A t \in Threads :
                (loc[t].ok /\ loc'[t] = loc[t])
                    => ApiStatus(loc[t].entry, now).ElapsedTimeSecs
                           <= ApiStatus(loc[t].entry, now').ElapsedTimeSecs]_vars

\* a view in the middle of a countdown, between two whole seconds
C13_Witness ==
    \E v \in Views :
        /\ v.Status = "in-progress"
        /\ 0 < v.ElapsedTimeSecs
        /\ v.ElapsedTimeSecs < v.TotalDelaySecs
        /\ (now - v.DateTimeAdded) % TicksPerSec # 0

\* the views of the retained jobs and of the snapshots held, derived now with the
\* completed flag as stored and with the flag the other way
ViewsAnyFlag ==
    LET entries == {history[j] : j \in DOMAIN history}
                       \cup {loc[t].entry : t \in {u \in Threads : loc[u].ok}}
    IN  {ApiStatus([e EXCEPT !.IsCompleted = b], now) : e \in entries, b \in BOOLEAN}

\* C20: every status view of the detail and list-all API paths, at any instant from
\* createdAt on and whatever the completed flag, has 0 <= elapsedSeconds <= d,
\* 0 <= remainingSeconds <= d and elapsedSeconds + remainingSeconds = d.
C20_ElapsedPlusRemaining ==
    \A v \in Views \cup ViewsAnyFlag :
        /\ 0 <= v.ElapsedTimeSecs /\ v.ElapsedTimeSecs <= v.TotalDelaySecs
        /\ 0 <= v.RemainingTimeSecs /\ v.RemainingTimeSecs <= v.TotalDelaySecs
        /\ v.ElapsedTimeSecs + v.RemainingTimeSecs = v.TotalDelaySecs

\* the list-all path derives the view of a job completed by its timer, more than a
\* second past its deadline
C20_Witness ==
    /\ \E t \in Threads : pc[t] = "list_cs"
    /\ \E j \in DOMAIN history :
           /\ history[j].IsCompleted
           /\ history[j].TotalDelaySecs > 1
           /\ now >= history[j].DateTimeAdded + Seconds(history[j].TotalDelaySecs + 1)

\* the positions inside the reading handlers (detail, list-all, history view)
ReadPCs == {"get_400", "get_cs", "get_resp", "list_cs", "index_cs"}

\* C14: no step of a read operation (Get, list-all, history view, with their status
\* derivation) changes the lookup table, the insertion-order sequence, the next-ID
\* counter or any job record; a read that derives "completed" from the clock leaves
\* the stored flag as it is.
C14_ReadsChangeNothing ==
    [][(\E t \in Threads : pc'[t] # pc[t] /\ (pc[t] \in ReadPCs \/ pc'[t] \in ReadPCs))
           => UNCHANGED <<history, historyOrder, nextEntryID, issued, timers>>]_vars

\* a detail read holds the snapshot of a retained job, derives "completed" from the
\* clock, and the stored flag of the job is false
C14_Witness ==
    \E t \in Threads :
        /\ pc[t] = "get_resp"
        /\ loc[t].ok
        /\ GetResponse(t).body.Status = "completed"
        /\ loc[t].jobID \in DOMAIN history
        /\ ~history[loc[t].jobID].IsCompleted

\* the handler's step from its position writes an HTTP response or a log line:
\* http.Error, log.Printf and the redirect, the JSON of the detail and list-all
\* views, the page of the history view
WritesIO(t) ==
    pc[t] \in {"post_400", "post_log", "get_400", "get_resp", "list_cs", "index_cs"}

\* the timer's step from its position writes the log line of a completed job
TimerWritesIO(g) == g.pc = "cs" /\ g.jobID \in DOMAIN history

\* C15: in every reachable state in which a task is writing an HTTP response or a log
\* line, that task does not hold the registry lock: for Create, Get, the list-all and
\* history views and the timer's completion step.
C15_NoIOUnderLock ==
    /\ \A t \in Threads : WritesIO(t) => ~(mu /\ InCS(t))
    /\ \A g \in timers : TimerWritesIO(g) => ~(mu /\ g.pc = "cs")

\* the tasks inside a critical section of the registry
NumInCS ==
    Cardinality({t \in Threads : InCS(t)}) + Cardinality({g \in timers : g.pc = "cs"})

\* the registry as a reader may find it
Consistent ==
    /\ Len(historyOrder) <= maxHistory
    /\ DOMAIN history = OrderIDs
    /\ \A i, k \in DOMAIN historyOrder : i < k => historyOrder[i] < historyOrder[k]
    /\ \A id \in DOMAIN history : id < nextEntryID
    /\ \A id \in DOMAIN history :
           history[id].IsCompleted => history[id].CompletedTime # NilTime

\* C16: at most one task is inside a critical section of the registry, and the lock
\* is held exactly then; whenever a reader (Get, list-all, history view) is in its
\* critical section the registry holds at most maxHistory jobs, the keys of the table
\* are the IDs of the sequence, the sequence is strictly increasing, every retained ID
\* is below the next ID and every completed job has its completion time; the snapshot
\* a Get carries away is such a job.
C16_AtomicSnapshots ==
    /\ NumInCS = (IF mu THEN 1 ELSE 0)
    /\ \A t \in Threads : pc[t] \in {"get_cs", "list_cs", "index_cs"} => Consistent
    /\ \A t \in Threads :
           (pc[t] = "get_resp" /\ loc[t].ok)
               => /\ loc[t].entry.ID = loc[t].jobID
                  /\ loc[t].jobID < nextEntryID
                  /\ loc[t].entry.IsCompleted => loc[t].entry.CompletedTime # NilTime

\* a reader is in its critical section of the full registry right after a Create
\* inserted a job and evicted the oldest
C16_Witness ==
    \E t, u \in Threads :
        /\ pc[t] \in {"get_cs", "list_cs", "index_cs"}
        /\ pc[u] = "post_log"
        /\ NumCreated > maxHistory
        /\ Len(historyOrder) = maxHistory

\* the timer of job j has slept its delay and waits for the lock, or holds it
TimerDue(j) ==
    \E g \in timers : g.jobID = j /\ (g.pc = "cs" \/ now >= g.start + Seconds(g.delay))

\* C17: the lock is never left locked: it is held only while a task is inside its
\* critical section, a held lock is always released, and under fair scheduling every
\* started handler (Create, Get, list, history view) returns and every timer whose
\* delay is over takes the lock, completes and ends.
C17_NoDeadlock ==
    /\ [](mu => NumInCS = 1)
    /\ mu ~> ~mu
    /\ \A t \in LiveThreads : (pc[t] # "idle") ~> (pc[t] = "idle")
    /\ \A j \in JobIDs : TimerDue(j) ~> (\A g \in timers : g.jobID # j)

\* one timer holds the lock while the other, its delay over, waits for it
C17_Witness ==
    \E g, w \in timers :
        /\ g.pc = "cs"
        /\ w.pc = "sleep"
        /\ now >= w.start + Seconds(w.delay)
        /\ mu

\* the fields of a job fixed by Create
Fixed(e) == <<e.ID, e.Name, e.DateTimeAdded, e.TotalDelaySecs>>

\* C18: the id, name, createdAt and totalDelaySeconds of a retained job never change.
\* The completion step of the timer of job j leaves the set of retained jobs, every
\* other job's record, the insertion-order sequence and the next-ID counter as they
\* are; a Create leaves the record of every job it does not evict as it is.
C18_FieldsImmutable ==
    [][/\ \A j \in DOMAIN history \cap DOMAIN history' :
            Fixed(history'[j]) = Fixed(history[j])
       /\ \A g \in timers :
            (g.pc = "cs" /\ g \notin timers')
                => /\ DOMAIN history' = DOMAIN history
                   /\ \A k \in DOMAIN history \ {g.jobID} : history'[k] = history[k]
                   /\ UNCHANGED <<historyOrder, nextEntryID>>
       /\ nextEntryID' # nextEntryID
            => \A k \in DOMAIN history \cap DOMAIN history' : history'[k] = history[k]]_vars

\* a timer completed its job after a later Create, beside that job still counting down
C18_Witness ==
    \E j, k \in DOMAIN history :
        /\ j < k
        /\ history[j].IsCompleted
        /\ history[j].CompletedTime # NilTime
        /\ history[j].CompletedTime[1] > history[k].DateTimeAdded
        /\ ~history[k].IsCompleted

\* C19: the derived view never lags the stored state: no read (detail, list-all,
\* history view) reports "in-progress" for a retained job whose stored completed flag
\* is true.
C19_ViewNeverLags ==
    /\ \A t \in Threads :
           (/\ pc[t] = "get_resp"
            /\ loc[t].ok
            /\ loc[t].jobID \in DOMAIN history
            /\ history[loc[t].jobID].IsCompleted)
               => GetResponse(t).body.Status # "in-progress"
    /\ (\E t \in Threads : pc[t] = "list_cs")
           => \A v \in responseList :
                  history[v.ID].IsCompleted => v.Status # "in-progress"
    /\ (\E t \in Threads : pc[t] = "index_cs")
           => LET rows == indexRows(history, historyOrder, now)
              IN  \A i \in DOMAIN rows :
                      history[rows[i].ID].IsCompleted => rows[i].Status # "in-progress"

\* the derived view leads the stored state: the list-all path derives "completed" for
\* a retained job whose stored flag is still false
C19_ViewLeads ==
    /\ \E t \in Threads : pc[t] = "list_cs"
    /\ \E v \in responseList : v.Status = "completed" /\ ~history[v.ID].IsCompleted

====
